---- MODULE Spec2Model ----
(***************************************************************************)
(* Model of musicmanrs (src/musicmanrs/src/main.rs): the command handlers  *)
(* join, leave, play, now_playing and skip, run as concurrent tasks (one   *)
(* per inbound message) against the two clients they share: the songbird  *)
(* voice manager and the lavalink_rs audio-node client.                    *)
(*                                                                         *)
(* The handlers keep no state of their own.  The state they read and write *)
(* is the clients' state:                                                  *)
(*   calls, voiceChannelId   songbird: the manager's map of Calls (what    *)
(*                           manager.get consults) and each Call's channel *)
(*   session                 lavalink: guilds with a player on the node    *)
(*                           (voice update sent, destroy not yet sent)     *)
(*   nodes                   lavalink: the client's per-guild Node, with   *)
(*                           now_playing and queue (the head of queue is   *)
(*                           the track being played)                       *)
(* Each task also carries the message it handles (content, gid, chan),    *)
(* the search result it holds (tracks), the requests it has sent to the    *)
(* two clients so far (issued), and what it said and returned.            *)
(* A handler is cut into steps at the .await of each call that reads or    *)
(* writes that state; every external call has its Ok and Err outcomes.     *)
(***************************************************************************)
EXTENDS Naturals, Sequences, FiniteSets

\* ---------------------------------------------------------------- bounds
MaxQueue == 2

Tasks == {1, 2}
Guilds == {"g1", "g2"}
SpecGuilds == {"g1"}
Channels == {"c1"}
Tracks == {"A", "B"}

None == "None"
DM == "DM"

Commands == {"join", "leave", "play", "now_playing", "skip", "ping"}

\* c.prefix("!"), and the prefixes and command names tried on the dispatcher
Prefix == "!"
Prefixes == {"!", "?"}
Names == {"ping", "join", "leave", "play", "skip", "now_playing", "np", "foo"}

\* The requests a handler sends to the voice manager and to the audio node
Requests == {"attach", "create_session", "detach", "destroy",
             "search", "queue", "skip"}

VARIABLES calls, voiceChannelId, session, nodes,
          pc, content, cmd, gid, chan, tracks, track, issued, reply, result

shared == <<calls, voiceChannelId, session, nodes>>
locals == <<pc, content, cmd, gid, chan, tracks, track, issued, reply, result>>
msg == <<content, cmd, gid, chan>>
vars == <<calls, voiceChannelId, session, nodes,
          pc, content, cmd, gid, chan, tracks, track, issued, reply, result>>

\* The content of a task that was handed no message text by the dispatcher
NoText == [prefix |-> None, name |-> None]

\* lavalink_rs Node::default(), and the absence of a node in nodes()
NoNode == [present |-> FALSE, now_playing |-> None, queue |-> <<>>]
EmptyNode == [present |-> TRUE, now_playing |-> None, queue |-> <<>>]

TypeOK ==
    /\ calls \subseteq Guilds
    /\ voiceChannelId \in [Guilds -> Channels \cup {None}]
    /\ session \subseteq Guilds
    /\ \A g \in Guilds :
         /\ nodes[g].present \in BOOLEAN
         /\ nodes[g].now_playing \in Tracks \cup {None}
         /\ nodes[g].queue \in Seq(Tracks)
         /\ Len(nodes[g].queue) <= MaxQueue
         /\ ~nodes[g].present => nodes[g] = NoNode
    /\ pc \in [Tasks -> {"idle", "dispatch", "join", "create_session", "leave",
                         "destroy", "play", "search", "queue", "now_playing",
                         "skip", "ping", "done"}]
    /\ \A t \in Tasks : content[t].prefix \in Prefixes \cup {None}
    /\ \A t \in Tasks : content[t].name \in Names \cup {None}
    /\ cmd \in [Tasks -> Commands \cup {None}]
    /\ \A t \in Tasks : tracks[t] \in Seq(Tracks)
    /\ \A t \in Tasks : issued[t] \in Seq(Requests)
    /\ gid \in [Tasks -> Guilds \cup {DM}]
    /\ chan \in [Tasks -> Channels \cup {None}]
    /\ track \in [Tasks -> Tracks \cup {None}]
    /\ result \in [Tasks -> {None, "Ok", "Err", "Panic"}]

Init ==
    /\ calls = {}
    /\ voiceChannelId = [g \in Guilds |-> None]
    /\ session = {}
    /\ nodes = [g \in Guilds |-> NoNode]
    /\ pc = [t \in Tasks |-> "idle"]
    /\ content = [t \in Tasks |-> NoText]
    /\ cmd = [t \in Tasks |-> None]
    /\ gid = [t \in Tasks |-> DM]
    /\ chan = [t \in Tasks |-> None]
    /\ tracks = [t \in Tasks |-> <<>>]
    /\ track = [t \in Tasks |-> None]
    /\ issued = [t \in Tasks |-> <<>>]
    /\ reply = [t \in Tasks |-> None]
    /\ result = [t \in Tasks |-> None]

\* ------------------------------------------------------- handler endings
\* A handler ends by sending `text` (msg.reply / channel_id.say ... .await?):
\* the send itself may fail, and then `?` returns Err.
Finish(t, text, sayOk) ==
    /\ pc' = [pc EXCEPT ![t] = "done"]
    /\ reply' = [reply EXCEPT ![t] = text]
    /\ result' = [result EXCEPT ![t] = IF sayOk THEN "Ok" ELSE "Err"]

\* A handler ends without sending anything, returning `res`.
Silent(t, res) ==
    /\ pc' = [pc EXCEPT ![t] = "done"]
    /\ reply' = reply
    /\ result' = [result EXCEPT ![t] = res]

\* The handler sends request r to one of its two clients.
Issue(t, r) == issued' = [issued EXCEPT ![t] = Append(@, r)]

\* ------------------------------------------------------------ invocation
\* A #[command] handler is called with a message: the message's guild (or a
\* direct message), and for join the voice channel the author is in
\* (guild.voice_states.get(&msg.author.id)).  The handlers are modelled as
\* called, whatever the command group registers.
Invoke(t, G) ==
    /\ pc[t] \in {"idle", "done"}
    /\ \E c \in Commands, g \in G \cup {DM}, ch \in Channels \cup {None} :
        /\ (c # "join") => ch = None
        /\ (g = DM) => ch = None
        /\ cmd' = [cmd EXCEPT ![t] = c]
        /\ gid' = [gid EXCEPT ![t] = g]
        /\ chan' = [chan EXCEPT ![t] = ch]
        /\ pc' = [pc EXCEPT ![t] = c]
    /\ content' = [content EXCEPT ![t] = NoText]
    /\ tracks' = [tracks EXCEPT ![t] = <<>>]
    /\ track' = [track EXCEPT ![t] = None]
    /\ issued' = [issued EXCEPT ![t] = <<>>]
    /\ reply' = [reply EXCEPT ![t] = None]
    /\ result' = [result EXCEPT ![t] = None]
    /\ UNCHANGED shared

\* ------------------------------------------------------------ dispatcher
\* #[group] #[commands(ping)] struct General: the commands the framework's
\* one group registers.
GroupCommands == {"ping"}

\* #[aliases(np)] on now_playing; every other command goes by its own name.
CommandOf(name) == IF name = "np" THEN "now_playing" ELSE name

\* StandardFramework::new().configure(|c| c.prefix("!")).group(&GENERAL_GROUP):
\* the handler a message is routed to, None when it is ignored.
Route(m) ==
    IF m.prefix = Prefix /\ CommandOf(m.name) \in GroupCommands
      THEN CommandOf(m.name)
      ELSE None

\* A message arrives: its content (a prefix and a command name), its guild or
\* a direct message.
Receive(t, G) ==
    /\ pc[t] \in {"idle", "done"}
    /\ \E p \in Prefixes, n \in Names, g \in G \cup {DM} :
        /\ content' = [content EXCEPT ![t] = [prefix |-> p, name |-> n]]
        /\ gid' = [gid EXCEPT ![t] = g]
    /\ pc' = [pc EXCEPT ![t] = "dispatch"]
    /\ cmd' = [cmd EXCEPT ![t] = None]
    /\ chan' = [chan EXCEPT ![t] = None]
    /\ tracks' = [tracks EXCEPT ![t] = <<>>]
    /\ track' = [track EXCEPT ![t] = None]
    /\ issued' = [issued EXCEPT ![t] = <<>>]
    /\ reply' = [reply EXCEPT ![t] = None]
    /\ result' = [result EXCEPT ![t] = None]
    /\ UNCHANGED shared

\* The framework routes the message to its handler, or drops it unanswered.
Dispatch(t) ==
    /\ pc[t] = "dispatch"
    /\ LET h == Route(content[t]) IN
         /\ cmd' = [cmd EXCEPT ![t] = h]
         /\ pc' = [pc EXCEPT ![t] = IF h = None THEN "done" ELSE h]
    /\ UNCHANGED <<shared, content, gid, chan, tracks, track, issued, reply, result>>

\* ------------------------------------------------------------------ ping
\* runners.get(&ShardId(ctx.shard_id)) is None: "No shard found";
\* runner.latency is None (no heartbeat acknowledged yet): unwrap() panics;
\* else the latency is replied.
Ping(t) ==
    /\ pc[t] = "ping"
    /\ \/ \E sayOk \in BOOLEAN : Finish(t, "No shard found", sayOk)
       \/ Silent(t, "Panic")
       \/ \E sayOk \in BOOLEAN : Finish(t, "Ping took", sayOk)
    /\ UNCHANGED <<shared, msg, tracks, track, issued>>

\* msg.guild(&ctx.cache).await.unwrap() and msg.guild_id.unwrap() on a message
\* that has no guild: the handler's task panics.
NoGuildPanic(t) ==
    /\ pc[t] \in {"join", "leave", "now_playing", "skip"}
    /\ gid[t] = DM
    /\ Silent(t, "Panic")
    /\ UNCHANGED <<shared, msg, tracks, track, issued>>

\* ------------------------------------------------------------------ join
\* Mutant of JoinNoVoiceChannel: the None arm does not return early, and the
\* manager is asked for the guild's Call before the handler gives up.
JoinNoVoiceChannel_FallsThrough(t) ==
    /\ pc[t] = "join"
    /\ gid[t] # DM
    /\ chan[t] = None
    /\ calls' = calls \cup {gid[t]}
    /\ \E sayOk \in BOOLEAN : Finish(t, "Error joining", sayOk)
    /\ UNCHANGED <<voiceChannelId, session, nodes, msg, tracks, track, issued>>

\* let connect_to = match channel_id { ... None => reply; return Ok(()) }
JoinNoVoiceChannel(t) ==
    /\ pc[t] = "join"
    /\ gid[t] # DM
    /\ chan[t] = None
    /\ \E sayOk \in BOOLEAN : Finish(t, "Join a voice channel first.", sayOk)
    /\ UNCHANGED <<shared, msg, tracks, track, issued>>

\* songbird's join_gateway: the manager gets or inserts the guild's Call, then
\* the Call joins the channel.  The Call stays in the manager's map when the
\* join fails (the handler receives it as the first component of the pair).
SongbirdJoinOk(g, ch) ==
    /\ calls' = calls \cup {g}
    /\ voiceChannelId' = [voiceChannelId EXCEPT ![g] = ch]

SongbirdJoinErr(g) ==
    /\ calls' = calls \cup {g}
    /\ voiceChannelId' = voiceChannelId

\* manager.join_gateway(guild_id, connect_to).await and the match on its
\* result: Ok goes on to the audio node, Err says "Error joining".
JoinGateway(t) ==
    /\ pc[t] = "join"
    /\ gid[t] # DM
    /\ chan[t] # None
    /\ \/ /\ SongbirdJoinOk(gid[t], chan[t])
          /\ pc' = [pc EXCEPT ![t] = "create_session"]
          /\ UNCHANGED <<reply, result>>
       \/ /\ SongbirdJoinErr(gid[t])
          /\ \E sayOk \in BOOLEAN : Finish(t, "Error joining", sayOk)
    /\ Issue(t, "attach")
    /\ UNCHANGED <<session, nodes, msg, tracks, track>>

\* lavalink's create_session_with_songbird: the voice update is sent to the
\* node, which creates the guild's player; the client keeps a Node for it.
LavalinkCreateSession(g) ==
    /\ session' = session \cup {g}
    /\ nodes' = [nodes EXCEPT ![g] = IF nodes[g].present THEN nodes[g] ELSE EmptyNode]

\* What the handler does when create_session_with_songbird(..).await? is Err:
\* `?` returns the error; nothing is undone and nothing is said.
JoinCreateFailed(t) ==
    /\ Silent(t, "Err")
    /\ UNCHANGED shared

\* lava_client.create_session_with_songbird(&connection_info).await?;
\* msg.channel_id.say("Joined ..").await?;
JoinCreateSession(t) ==
    /\ pc[t] = "create_session"
    /\ \/ /\ LavalinkCreateSession(gid[t])
          /\ \E sayOk \in BOOLEAN : Finish(t, "Joined", sayOk)
          /\ UNCHANGED <<calls, voiceChannelId>>
       \/ JoinCreateFailed(t)
    /\ Issue(t, "create_session")
    /\ UNCHANGED <<msg, tracks, track>>

\* ----------------------------------------------------------------- leave
\* manager.get(guild_id).is_some()
HasHandler(g) == g \in calls

\* Mutant of SongbirdRemoveOk: the Calls of all guilds leave and are dropped.
SongbirdRemoveOk_AllGuilds(g) ==
    /\ calls' = {}
    /\ voiceChannelId' = [h \in Guilds |-> None]

\* songbird's remove: the Call leaves, and on success is dropped from the map.
SongbirdRemoveOk(g) ==
    /\ calls' = calls \ {g}
    /\ voiceChannelId' = [voiceChannelId EXCEPT ![g] = None]

\* On failure the Call has left locally but stays in the manager's map.
SongbirdRemoveErr(g) ==
    /\ calls' = calls
    /\ voiceChannelId' = [voiceChannelId EXCEPT ![g] = None]

LeaveNotInVoice(t) ==
    /\ pc[t] = "leave"
    /\ gid[t] # DM
    /\ ~HasHandler(gid[t])
    /\ \E sayOk \in BOOLEAN : Finish(t, "Not in a voice channel", sayOk)
    /\ UNCHANGED <<shared, msg, tracks, track, issued>>

\* lavalink's destroy on the client's Node: now_playing is cleared and the
\* head of the queue dropped, before the destroy is sent to the node.
DestroyNode(n) ==
    IF n.present
      THEN [n EXCEPT !.now_playing = None,
                     !.queue = IF n.queue = <<>> THEN <<>> ELSE Tail(n.queue)]
      ELSE n

\* Mutant of LeaveRemove: the audio node's session is destroyed before the
\* voice manager is asked to remove the guild's Call.
LeaveRemove_DestroyFirst(t) ==
    /\ pc[t] = "leave"
    /\ gid[t] # DM
    /\ HasHandler(gid[t])
    /\ nodes' = [nodes EXCEPT ![gid[t]] = DestroyNode(nodes[gid[t]])]
    /\ session' = session \ {gid[t]}
    /\ pc' = [pc EXCEPT ![t] = "destroy"]
    /\ Issue(t, "destroy")
    /\ UNCHANGED <<calls, voiceChannelId, msg, tracks, track, reply, result>>

\* if has_handler { if let Err(e) = manager.remove(guild_id).await
\*                    { say("Failed: ..").await?; } ...
\* An error of remove is said, then the handler goes on to the audio node; if
\* saying it fails, `?` returns before lava_client.destroy is reached.
LeaveRemove(t) ==
    /\ pc[t] = "leave"
    /\ gid[t] # DM
    /\ HasHandler(gid[t])
    /\ \/ /\ SongbirdRemoveOk(gid[t])
          /\ pc' = [pc EXCEPT ![t] = "destroy"]
          /\ UNCHANGED <<reply, result>>
       \/ /\ SongbirdRemoveErr(gid[t])
          /\ pc' = [pc EXCEPT ![t] = "destroy"]
          /\ reply' = [reply EXCEPT ![t] = "Failed"]
          /\ UNCHANGED result
       \/ /\ SongbirdRemoveErr(gid[t])
          /\ Finish(t, "Failed", FALSE)
    /\ Issue(t, "detach")
    /\ UNCHANGED <<session, nodes, msg, tracks, track>>

\* lava_client.destroy(guild_id).await?;  say("Left voice channel").await?;
LeaveDestroy(t) ==
    /\ pc[t] = "destroy"
    /\ nodes' = [nodes EXCEPT ![gid[t]] = DestroyNode(nodes[gid[t]])]
    /\ \/ /\ session' = session \ {gid[t]}
          /\ \E sayOk \in BOOLEAN : Finish(t, "Left voice channel", sayOk)
       \/ /\ session' = session
          /\ Silent(t, "Err")
    /\ Issue(t, "destroy")
    /\ UNCHANGED <<calls, voiceChannelId, msg, tracks, track>>

\* ------------------------------------------------------------------ play
\* ctx.cache.guild_channel(msg.channel_id) is None for a message outside a
\* guild: "Error finding channel info".
PlayNoChannelInfo(t) ==
    /\ pc[t] = "play"
    /\ gid[t] = DM
    /\ \E sayOk \in BOOLEAN : Finish(t, "Error finding channel info", sayOk)
    /\ UNCHANGED <<shared, msg, tracks, track, issued>>

\* if let Some(_handler) = manager.get(guild_id) { search .. } else { say(..) }
PlayCheck(t) ==
    /\ pc[t] = "play"
    /\ gid[t] # DM
    /\ IF HasHandler(gid[t])
         THEN /\ pc' = [pc EXCEPT ![t] = "search"]
              /\ UNCHANGED <<reply, result>>
         ELSE \E sayOk \in BOOLEAN : Finish(t, "Use !join first", sayOk)
    /\ UNCHANGED <<shared, msg, tracks, track, issued>>

\* What lava_client.auto_search_tracks(&query) can answer with: the tracks
\* found, in the node's order, possibly none.
SearchResults == {<<>>, <<"A">>, <<"B">>, <<"A", "B">>, <<"B", "A">>}

\* let query_information = lava_client.auto_search_tracks(&query).await?;
\* An error returns through `?`; else the handler holds the tracks found.
PlaySearch(t) ==
    /\ pc[t] = "search"
    /\ \/ /\ Silent(t, "Err")
          /\ UNCHANGED tracks
       \/ /\ \E res \in SearchResults : tracks' = [tracks EXCEPT ![t] = res]
          /\ pc' = [pc EXCEPT ![t] = "queue"]
          /\ UNCHANGED <<reply, result>>
    /\ Issue(t, "search")
    /\ UNCHANGED <<shared, msg, track>>

\* Mutant of PlayNotFound: the empty result is not checked for, and the play
\* request is sent for a track that does not exist (tracks[0] panics).
PlayNotFound_NoCheck(t) ==
    /\ pc[t] = "queue"
    /\ tracks[t] = <<>>
    /\ Silent(t, "Panic")
    /\ Issue(t, "queue")
    /\ UNCHANGED <<shared, msg, tracks, track>>

\* if query_information.tracks.is_empty() { say("Could not find ..");
\*                                          return Ok(()) }
PlayNotFound(t) ==
    /\ pc[t] = "queue"
    /\ tracks[t] = <<>>
    /\ \E sayOk \in BOOLEAN :
         Finish(t, "Could not find any video of the search query.", sayOk)
    /\ UNCHANGED <<shared, msg, tracks, track, issued>>

\* query_information.tracks[0]
FirstTrack(res) == res[1]

\* lavalink's queue(): the track is pushed at the tail of the guild's Node
\* queue; without a Node (no session was created) it is an error.
CanQueue(n) == n.present

\* Mutant of QueueTrack: the track is pushed in front of the queue.
QueueTrack_AtHead(n, tr) == [n EXCEPT !.queue = <<tr>> \o n.queue]

QueueTrack(n, tr) == [n EXCEPT !.queue = Append(n.queue, tr)]

\* if let Err(why) = lava_client.play(guild_id, tracks[0]).queue().await
\*     { eprintln!(..); return Ok(()) }
\* say("Added to queue: ..").await?;
PlayQueue(t) ==
    /\ pc[t] = "queue"
    /\ tracks[t] # <<>>
    /\ \/ /\ CanQueue(nodes[gid[t]])
          /\ Len(nodes[gid[t]].queue) < MaxQueue
          /\ nodes' = [nodes EXCEPT
                         ![gid[t]] = QueueTrack(nodes[gid[t]], FirstTrack(tracks[t]))]
          /\ track' = [track EXCEPT ![t] = FirstTrack(tracks[t])]
          /\ \E sayOk \in BOOLEAN : Finish(t, "Added to queue", sayOk)
       \/ /\ nodes' = nodes
          /\ track' = track
          /\ Silent(t, "Ok")
    /\ tracks' = [tracks EXCEPT ![t] = <<>>]
    /\ Issue(t, "queue")
    /\ UNCHANGED <<calls, voiceChannelId, session, msg>>

\* ----------------------------------------------------------- now_playing
\* Mutant of NowPlayingOf: the head of the node's queue is taken for the
\* playing track.
NowPlayingOf_QueueHead(n) ==
    IF n.present /\ n.queue # <<>> THEN Head(n.queue) ELSE None

\* if let Some(node) = nodes().get(guild) { if let Some(track) = node.now_playing
NowPlayingOf(n) == IF n.present THEN n.now_playing ELSE None

NowPlaying(t) ==
    /\ pc[t] = "now_playing"
    /\ gid[t] # DM
    /\ LET np == NowPlayingOf(nodes[gid[t]]) IN
         /\ track' = [track EXCEPT ![t] = np]
         /\ \E sayOk \in BOOLEAN :
              Finish(t, IF np # None THEN "Now Playing"
                                     ELSE "Nothing is playing at the moment.", sayOk)
    /\ UNCHANGED <<shared, msg, tracks, issued>>

\* ------------------------------------------------------------------ skip
\* lavalink's skip: None without a Node; else now_playing is cleared and the
\* head of the queue, if any, is removed and returned.
SkippedTrack(n) == IF n.present /\ n.queue # <<>> THEN Head(n.queue) ELSE None

\* Mutant of SkipNode: now_playing is cleared but the head stays in the queue.
SkipNode_KeepsHead(n) ==
    IF n.present THEN [n EXCEPT !.now_playing = None] ELSE n

SkipNode(n) ==
    IF n.present
      THEN [n EXCEPT !.now_playing = None,
                     !.queue = IF n.queue = <<>> THEN <<>> ELSE Tail(n.queue)]
      ELSE n

\* if let Some(track) = lava_client.skip(guild).await { say("Skipped: ..") }
\* else { say("Nothing to skip.") }
Skip(t) ==
    /\ pc[t] = "skip"
    /\ gid[t] # DM
    /\ LET sk == SkippedTrack(nodes[gid[t]]) IN
         /\ track' = [track EXCEPT ![t] = sk]
         /\ nodes' = [nodes EXCEPT ![gid[t]] = SkipNode(nodes[gid[t]])]
         /\ \E sayOk \in BOOLEAN :
              Finish(t, IF sk # None THEN "Skipped" ELSE "Nothing to skip.", sayOk)
    /\ Issue(t, "skip")
    /\ UNCHANGED <<calls, voiceChannelId, session, msg, tracks>>

\* ------------------------------------------------- the audio node's events
\* The client's queue loop starts the head of the queue when nothing is
\* playing (reported to LavalinkHandler::track_start).
TrackStart(g) ==
    /\ nodes[g].present
    /\ nodes[g].now_playing = None
    /\ nodes[g].queue # <<>>
    /\ nodes' = [nodes EXCEPT ![g].now_playing = Head(nodes[g].queue)]
    /\ UNCHANGED <<calls, voiceChannelId, session, locals>>

\* The playing track ends: it leaves the queue and nothing is playing
\* (reported to LavalinkHandler::track_finish).
TrackFinish(g) ==
    /\ nodes[g].present
    /\ nodes[g].now_playing # None
    /\ nodes' = [nodes EXCEPT ![g].now_playing = None,
                              ![g].queue = Tail(nodes[g].queue)]
    /\ UNCHANGED <<calls, voiceChannelId, session, locals>>

\* --------------------------------------------------------- specification
Step(t) ==
    \/ NoGuildPanic(t)
    \/ JoinNoVoiceChannel(t)
    \/ JoinGateway(t)
    \/ JoinCreateSession(t)
    \/ LeaveNotInVoice(t)
    \/ LeaveRemove(t)
    \/ LeaveDestroy(t)
    \/ PlayNoChannelInfo(t)
    \/ PlayCheck(t)
    \/ PlaySearch(t)
    \/ PlayNotFound(t)
    \/ PlayQueue(t)
    \/ NowPlaying(t)
    \/ Skip(t)
    \/ Ping(t)

Next ==
    \/ \E t \in Tasks : Invoke(t, SpecGuilds)
    \/ \E t \in Tasks : Step(t)
    \/ \E g \in SpecGuilds : TrackStart(g)
    \/ \E g \in SpecGuilds : TrackFinish(g)

Spec == Init /\ [][Next]_vars

\* One command at a time: a single task handles the messages one after the
\* other, so that no two handlers overlap.
SeqTask == CHOOSE t \in Tasks : TRUE

SeqNext ==
    \/ Invoke(SeqTask, SpecGuilds)
    \/ Step(SeqTask)
    \/ \E g \in SpecGuilds : TrackStart(g)
    \/ \E g \in SpecGuilds : TrackFinish(g)

SeqSpec == Init /\ [][SeqNext]_vars

\* Two guilds: the messages of both are handled one after the other, in any
\* order, and the audio node plays for both.
IsoNext ==
    \/ Invoke(SeqTask, Guilds)
    \/ Step(SeqTask)
    \/ \E g \in Guilds : TrackStart(g)
    \/ \E g \in Guilds : TrackFinish(g)

IsoSpec == Init /\ [][IsoNext]_vars

\* The dispatcher in front of the handlers: messages arrive as text and only
\* the handlers the framework routes to are run.
DispatchNext ==
    \/ \E t \in Tasks : Receive(t, SpecGuilds)
    \/ \E t \in Tasks : Dispatch(t)
    \/ \E t \in Tasks : Ping(t)

DispatchSpec == Init /\ [][DispatchNext]_vars

\* ------------------------------------------------- the spec's guild states
\* Connected: the guild has a voice connection and a session on the audio
\* node; Disconnected otherwise.  Idle and Playing by the Node's now_playing.
Connected(g) == voiceChannelId[g] # None /\ g \in session
Disconnected(g) == ~Connected(g)
Playing(g) == Connected(g) /\ NowPlayingOf(nodes[g]) # None
Idle(g) == Connected(g) /\ NowPlayingOf(nodes[g]) = None /\ nodes[g].queue = <<>>

\* Task t takes the step that leaves label l.
Leaves(t, l) == pc[t] = l /\ pc'[t] # l

\* Task t, handling command c for a guild, takes its last step.
Ends(t, c) == cmd[t] = c /\ gid[t] # DM /\ pc[t] \notin {"idle", "done"} /\ pc'[t] = "done"

\* ----------------------------------------------------------------- claims
\* C1: a play issued while the guild is Disconnected is answered "Use !join
\* first", goes on to no search or play request, and changes none of the
\* guild's session state.
C1_PlayWhileDisconnectedRejected ==
    [][\A t \in Tasks :
         (Leaves(t, "play") /\ gid[t] # DM /\ Disconnected(gid[t]))
           => /\ pc'[t] = "done"
              /\ reply'[t] = "Use !join first"
              /\ UNCHANGED shared]_vars

\* C2: a join that ends in failure (the attach failed, or the attach succeeded
\* and the audio-node session creation failed) leaves no voice session
\* registered for the guild, and reports the failure.
C2_FailedJoinRollsBack ==
    [][\A t \in Tasks :
         (Ends(t, "join") /\ chan[t] # None /\ reply'[t] # "Joined")
           => /\ gid[t] \notin calls'
              /\ voiceChannelId'[gid[t]] = None
              /\ reply'[t] # None]_vars

\* C3: a leave that follows a successful join from the clean state (the guild
\* has its audio-node session, nothing playing, nothing queued) ends in the
\* pre-join state: no Call, no voice channel, no audio-node session, nothing
\* playing, nothing queued.
C3_JoinLeaveRoundTrip ==
    [][\A t \in Tasks :
         (/\ Ends(t, "leave")
          /\ reply'[t] # "Not in a voice channel"
          /\ gid[t] \in session
          /\ nodes[gid[t]] = EmptyNode)
           => /\ gid[t] \notin calls'
              /\ voiceChannelId'[gid[t]] = None
              /\ gid[t] \notin session'
              /\ NowPlayingOf(nodes'[gid[t]]) = None
              /\ nodes'[gid[t]].queue = <<>>]_vars

\* C4: two joins of the same guild are never both past the attach and before
\* their create-session at the same time.
C4_JoinsSerialized ==
    \A t1, t2 \in Tasks :
        (t1 # t2 /\ pc[t1] = "create_session" /\ pc[t2] = "create_session")
          => gid[t1] # gid[t2]

\* C5: whenever no command is in flight, a guild without a voice connection
\* has nothing playing and an empty queue.
C5_NoVoiceMeansNothingQueued ==
    (\A t \in Tasks : pc[t] \in {"idle", "done"})
      => \A g \in Guilds :
           voiceChannelId[g] = None
             => NowPlayingOf(nodes[g]) = None /\ nodes[g].queue = <<>>

\* C6: a leave of a guild that has its audio-node session ends with the
\* guild Disconnected: no Call registered, no voice channel, no audio-node
\* session, whichever teardown call failed.
C6_LeaveAlwaysDisconnects ==
    [][\A t \in Tasks :
         (/\ Ends(t, "leave")
          /\ reply'[t] # "Not in a voice channel"
          /\ gid[t] \in session)
           => /\ gid[t] \notin calls'
              /\ voiceChannelId'[gid[t]] = None
              /\ gid[t] \notin session']_vars

\* C7: a join issued while the guild is Connected ends at once, without
\* asking for a voice session or an audio-node session and without changing
\* the guild's state.
C7_JoinOnlyFromDisconnected ==
    [][\A t \in Tasks :
         (Leaves(t, "join") /\ gid[t] # DM /\ Connected(gid[t]))
           => /\ pc'[t] = "done"
              /\ UNCHANGED shared]_vars

\* C8: a join by a user who is in no voice channel is answered "Join a voice
\* channel first.", makes no attach or create-session call, and changes no
\* session state.
C8_JoinWithoutVoiceChannel ==
    [][\A t \in Tasks :
         (Leaves(t, "join") /\ gid[t] # DM /\ chan[t] = None)
           => /\ pc'[t] = "done"
              /\ reply'[t] = "Join a voice channel first."
              /\ UNCHANGED shared]_vars

C8_Witness ==
    \E t \in Tasks :
        /\ cmd[t] = "join" /\ gid[t] # DM /\ chan[t] = None
        /\ pc[t] = "done"
        /\ reply[t] = "Join a voice channel first."

\* C9: a skip issued while the guild is Connected(Idle) or Disconnected is
\* answered "Nothing to skip." and changes no state.
C9_SkipWhenIdleOrDisconnected ==
    [][\A t \in Tasks :
         (Leaves(t, "skip") /\ gid[t] # DM
            /\ (Idle(gid[t]) \/ Disconnected(gid[t])))
           => /\ reply'[t] = "Nothing to skip."
              /\ UNCHANGED shared]_vars

C11_NowPlayingIsPureQuery ==
    [][\A t \in Tasks :
         (Leaves(t, "now_playing") /\ gid[t] # DM) =>
             LET n == nodes[gid[t]] IN
               /\ UNCHANGED shared
               /\ issued'[t] = <<>>
               /\ pc'[t] = "done"
               /\ IF n.present /\ n.now_playing # None
                    THEN /\ reply'[t] = "Now Playing"
                         /\ track'[t] = n.now_playing
                    ELSE reply'[t] = "Nothing is playing at the moment."]_vars

\* now_playing answered with the track the node is playing.
C11_Witness ==
    \E t \in Tasks :
        /\ pc[t] = "done" /\ cmd[t] = "now_playing" /\ gid[t] # DM
        /\ reply[t] = "Now Playing"
        /\ track[t] # None
        /\ track[t] = nodes[gid[t]].now_playing


\* C12: every failure of a command a user can trigger is answered in the
\* channel of the message: a handler that has ended without a panic has sent
\* (or tried to send) a reply.
C12_EveryFailureAnswered ==
    \A t \in Tasks :
        (pc[t] = "done" /\ cmd[t] \in Commands /\ result[t] # "Panic")
            => reply[t] # None

\* C13: no handler reaches a panic, whatever the message and whatever the
\* outcome of the calls it makes.
C13_NoHandlerPanics ==
    \A t \in Tasks : result[t] # "Panic"

\* The commands the dispatcher is to recognise: ping, join, leave, play,
\* skip, now_playing and its alias np.
C14_CommandSet == {"ping", "join", "leave", "play", "skip", "now_playing", "np"}

\* C14: the dispatcher routes every message made of the prefix and one of
\* the recognised command names to that command's handler, and ignores every
\* other message without a reply.
C14_DispatcherRoutesCommandSet ==
    [][\A t \in Tasks :
         Leaves(t, "dispatch") =>
             IF content[t].prefix = Prefix /\ content[t].name \in C14_CommandSet
               THEN pc'[t] = CommandOf(content[t].name)
               ELSE pc'[t] = "done" /\ reply'[t] = None]_vars

C16_EmptySearchChangesNothing ==
    [][\A t \in Tasks :
         (Leaves(t, "queue") /\ tracks[t] = <<>>)
           => /\ reply'[t] = "Could not find any video of the search query."
              /\ pc'[t] = "done"
              /\ issued'[t] = <<"search">>
              /\ UNCHANGED shared]_vars

\* A play found nothing while the guild was connected with a track playing:
\* it said so, having sent only the search.
C16_Witness ==
    \E t \in Tasks :
        /\ cmd[t] = "play" /\ pc[t] = "done"
        /\ reply[t] = "Could not find any video of the search query."
        /\ issued[t] = <<"search">>
        /\ Connected(gid[t])
        /\ nodes[gid[t]].now_playing # None

\* C17: a guild's commands are serialized for the whole of a transition: while
\* a play of a connected guild is past its connected check and waits for its
\* search or its queue request, no other play of the guild is past its own
\* check and no leave of the guild starts its teardown; and a play never
\* enqueues for a guild whose voice session a concurrent leave has removed.
C17_PlaySerializedPerGuild ==
    [][/\ \A t1, t2 \in Tasks :
            (t1 # t2 /\ gid[t1] # DM /\ gid[t1] = gid[t2] /\ Connected(gid[t1])
               /\ cmd[t1] = "play" /\ pc[t1] \in {"search", "queue"})
              => /\ pc[t2] \notin {"search", "queue"}
                 /\ ~Leaves(t2, "leave")
       /\ \A t \in Tasks :
            (Leaves(t, "queue") /\ reply'[t] = "Added to queue")
              => HasHandler(gid[t])]_vars

\* C18: leave tears down the audio-node session first and the voice session
\* second: when a leave handler sends the voice detach, it has already sent
\* the audio node's destroy.
C18_LeaveAudioNodeFirst ==
    [][\A t \in Tasks :
         (cmd[t] = "leave" /\ issued'[t] = Append(issued[t], "detach"))
           => \E i \in 1..Len(issued[t]) : issued[t][i] = "destroy"]_vars

\* C18, amended: leave tears down the voice session first and the audio-node
\* session second: the requests a leave handler has sent are, in this order,
\* the voice detach and then the audio node's destroy, so that the destroy is
\* only sent after the detach.
C18_LeaveVoiceFirst ==
    \A t \in Tasks :
        cmd[t] = "leave"
          => issued[t] \in {<<>>, <<"detach">>, <<"detach", "destroy">>}

\* A leave has run to its end: it sent the detach, then the destroy, and the
\* guild has neither a voice session nor an audio-node session.
C18_Witness ==
    \E t \in Tasks :
        /\ cmd[t] = "leave" /\ pc[t] = "done" /\ gid[t] # DM
        /\ issued[t] = <<"detach", "destroy">>
        /\ reply[t] = "Left voice channel"
        /\ gid[t] \notin calls
        /\ gid[t] \notin session

C20_SuccessReplyImpliesEffect ==
    [][\A t \in Tasks :
         (gid[t] # DM /\ reply'[t] # reply[t])
           => LET g == gid[t] IN
                /\ reply'[t] = "Joined"
                     => /\ g \in calls' /\ voiceChannelId'[g] # None
                        /\ g \in session' /\ nodes'[g].present
                /\ reply'[t] = "Left voice channel"
                     => /\ g \notin calls' /\ voiceChannelId'[g] = None
                        /\ g \notin session'
                /\ reply'[t] = "Added to queue"
                     => nodes'[g].queue = Append(nodes[g].queue, track'[t])]_vars

====
